---- MODULE Spec2Model ----
(***************************************************************************)
(* Model of the ockam policy store (ockam_abac), the transport registry and *)
(* route resolver (ockam_node), the credential handlers and the users store *)
(* (ockam_api) and the tcp inlet create command (ockam_command).           *)
(***************************************************************************)
EXTENDS Naturals, Integers, Sequences, FiniteSets, Bags, TLC

VARIABLES
    policy,      \* the rows of table `policy`: records [resource, action, expression]
    inflight,    \* the set_policy calls awaiting execution: a bag of bound queries
    ret,         \* the last completed repository call and what it returned
    transports,  \* the registry: transport type -> registered adapter (or NoTransport)
    registered,  \* the transport types in the order register_transport was called
    lock,        \* the registry mutex: "free", or "resolve" while the resolver's guard lives
    queried,     \* the last is_transport_registered call and its answer
    rpc,         \* position of the resolve_transport_route call: "idle", "loop", "done"
    input,       \* the route given to the resolution in flight
    snapshot,    \* the cloned registry, as the sequence `values()` iterates it
    idx,         \* index in snapshot of the next transport to ask
    resolved,    \* the local variable `resolved`
    asked,       \* the adapters whose resolve_route has been awaited, in call order
    result,      \* what resolve_transport_route returned
    credCache,   \* the node's credential per identifier: 0 = none, n = the n-th issued
    issued,      \* how many credentials the authority has issued
    gcRet,       \* the last get_credential request and its response
    ppc,         \* position of the present_credential handler: "idle", "lookup", "send", "done"
    preq,        \* the present_credential request: kind of route text, oneway
    plookup,     \* what the lookup of the node's own credential returned
    ptrust,      \* what trust_context() returned: "unread", "missing", "configured"
    psent,       \* what was handed to the credentials service for the peer
    pexch,       \* the exchange with the peer: its outcome, the issuer of the peer's credential
    presp,       \* the handler's outcome: "none", "Ok", "Error", "Panic"
    ipc,         \* position of create_inlet: "idle", "request", "sleep", "established", "failed"
    cmd,         \* the command: retry_wait, and what its preconditions find
    requests,    \* how many create-inlet requests were sent to the node
    sleeps,      \* how many times the loop slept
    sleepFor,    \* the duration of the last sleep
    replies,     \* the replies to the requests, oldest first
    is_finished, \* the completion flag shared with the progress output
    ierr,        \* the error create_inlet ended with, "none" without one
    slept,       \* the time the loop has spent sleeping so far
    inlet,       \* the inlet status create_inlet returned to try_join: "none" before
    progress,    \* the progress output joined with create_inlet: "running", "finished"
    users,       \* the rows of table `user` in rowid order: records [email, nickname, is_default]
    uret,        \* the last call on the users repository: its name, its email, and what
                 \* get_default_user returned before it
    epc,         \* position of enroll_user: "idle", the step awaited, "done"
    eout,        \* what enroll_with_token returned: an EnrollmentOutcome, "Err", "none" before
    eret,        \* what enroll_user returned: "Ok", "Err", "none" before
    enrolled,    \* whether the node's identifier is marked as enrolled
    ostatus,     \* the orchestrator status
    euser,       \* the user info retrieved by this enrollment
    esteps,      \* the steps of this enrollment that succeeded, in order
    eis,         \* what is_enrolled() returned to this enrollment
    estart       \* whether the identifier was marked when this enrollment was called

policyVars == <<policy, inflight, ret>>
transportVars == <<transports, registered, lock, queried, rpc, input, snapshot, idx, resolved, asked, result>>
credVars == <<credCache, issued, gcRet, ppc, preq, plookup, ptrust, psent, pexch, presp>>
vars == <<policy, inflight, ret, transports, registered, lock, queried, rpc, input, snapshot, idx, resolved, asked, result,
          credCache, issued, gcRet, ppc, preq, plookup, ptrust, psent, pexch, presp,
          ipc, cmd, requests, sleeps, sleepFor, replies, is_finished, ierr, slept, inlet, progress,
          users, uret, epc, eout, eret, enrolled, ostatus, euser, esteps, eis, estart>>

EnrollIdle == UNCHANGED <<epc, eout, eret, enrolled, ostatus, euser, esteps, eis, estart>>
UsersIdle == UNCHANGED <<users, uret>>
InletIdle ==
    UNCHANGED <<ipc, cmd, requests, sleeps, sleepFor, replies, is_finished, ierr, slept, inlet, progress>>
CredentialsIdle == UNCHANGED <<credCache, issued, gcRet, ppc, preq, plookup, ptrust, psent, pexch, presp>>
CoreIdle ==
    /\ UNCHANGED <<policy, inflight, ret, transports, registered, lock, queried, rpc, input, snapshot, idx, resolved, asked, result>>
    /\ UsersIdle
    /\ EnrollIdle
ServicesIdle ==
    /\ UNCHANGED <<policy, inflight, ret, transports, registered, lock, queried, rpc, input, snapshot, idx, resolved, asked, result>>
    /\ CredentialsIdle
    /\ InletIdle

(***************************************************************************)
(* Bounds                                                                  *)
(***************************************************************************)
NumCallers == 2
MaxRouteLen == 2
MaxRegistrations == 3
MaxAttempts == 3


(***************************************************************************)
(* Expr and its binary form                                                *)
(***************************************************************************)
\* An expression is [k, n, xs]: a leaf carries its value in n (strings by their
\* index in a string table), a Seq/List carries its items in xs.
Leaf(k, n) == [k |-> k, n |-> n, xs |-> <<>>]
Node(k, xs) == [k |-> k, n |-> 0, xs |-> xs]

NoExpr == Leaf("None", 0)

ExprTag(k) ==
    CASE k = "Str" -> 1
      [] k = "Int" -> 2
      [] k = "Float" -> 3
      [] k = "Bool" -> 4
      [] k = "Ident" -> 5
      [] k = "Seq" -> 6
      [] k = "List" -> 7

TagKind(t) ==
    CASE t = 1 -> "Str"
      [] t = 2 -> "Int"
      [] t = 3 -> "Float"
      [] t = 4 -> "Bool"
      [] t = 5 -> "Ident"
      [] t = 6 -> "Seq"
      [] t = 7 -> "List"
      [] OTHER -> "None"

IsNodeKind(k) == k \in {"Seq", "List"}

RECURSIVE to_vec(_)
RECURSIVE EncodeItems(_)
\* minicbor::to_vec(expression): the tag, then the value or the item count and the items
to_vec(e) ==
    IF IsNodeKind(e.k)
    THEN <<ExprTag(e.k), Len(e.xs)>> \o EncodeItems(e.xs)
    ELSE <<ExprTag(e.k), e.n>>

EncodeItems(xs) ==
    IF xs = <<>> THEN <<>> ELSE to_vec(Head(xs)) \o EncodeItems(Tail(xs))

DecodeFail == [ok |-> FALSE, expr |-> NoExpr, rest |-> <<>>]

RECURSIVE DecodeOne(_)
RECURSIVE DecodeItems(_, _, _)
\* Decode one expression from the front of bytes; rest is what follows it.
DecodeOne(bytes) ==
    IF Len(bytes) < 2 THEN DecodeFail
    ELSE LET k == TagKind(bytes[1])
             n == bytes[2]
             tl == SubSeq(bytes, 3, Len(bytes))
         IN  IF k = "None" THEN DecodeFail
             ELSE IF IsNodeKind(k) THEN DecodeItems(k, n, [ok |-> TRUE, expr |-> Node(k, <<>>), rest |-> tl])
             ELSE IF k = "Bool" /\ n > 1 THEN DecodeFail
             ELSE [ok |-> TRUE, expr |-> Leaf(k, n), rest |-> tl]

DecodeItems(k, n, acc) ==
    IF n = 0 THEN acc
    ELSE LET item == DecodeOne(acc.rest)
         IN  IF ~item.ok THEN DecodeFail
             ELSE DecodeItems(k, n - 1,
                      [ok |-> TRUE, expr |-> Node(k, Append(acc.expr.xs, item.expr)), rest |-> item.rest])

\* minicbor::decode(bytes): one whole expression
decode(bytes) ==
    LET d == DecodeOne(bytes)
    IN  IF d.ok THEN [ok |-> TRUE, expr |-> d.expr] ELSE [ok |-> FALSE, expr |-> NoExpr]

\* Expr::equals
equals(e1, e2) == e1 = e2

(***************************************************************************)
(* Values the callers use                                                  *)
(***************************************************************************)
Resources == {"outlet", "inlet"}
Actions == {"create", "delete"}

\* String table: 1 = "=", 2 = "name", 3 = "me"
EqNameMe == Node("List", <<Leaf("Ident", 1), Leaf("Ident", 2), Leaf("Str", 3)>>)
Exprs == {EqNameMe, Node("List", <<Leaf("Ident", 1), Node("Seq", <<Leaf("Bool", 1)>>), EqNameMe>>)}

\* Bytes no Expr encodes to: an unknown tag; a list that announces two items and holds one
CorruptBytes == {<<9, 0>>, <<7, 2, 4, 1>>}

(***************************************************************************)
(* PolicySqlxDatabase                                                      *)
(***************************************************************************)
PolicyRow(r, a, bytes) == [resource |-> r, action |-> a, expression |-> bytes]

\* PolicyRow::expression
expression(row) == decode(row.expression)

\* The table's primary key
PrimaryKey(row) == <<row.resource, row.action>>

Matching(rows, r, a) == {row \in rows : row.resource = r /\ row.action = a}
ByResource(rows, r) == {row \in rows : row.resource = r}

\* get_policy with `WHERE resource=$1` only
get_policy_any_action(rows, r, a) ==
    LET m == ByResource(rows, r)
    IN  IF m = {} THEN [kind |-> "None", expr |-> NoExpr]
        ELSE LET d == expression(CHOOSE row \in m : TRUE)
             IN  IF d.ok THEN [kind |-> "Some", expr |-> d.expr]
                 ELSE [kind |-> "Err", expr |-> NoExpr]

\* get_policy with fetch_one: no row is an error
get_policy_fetch_one(rows, r, a) ==
    LET m == Matching(rows, r, a)
    IN  IF m = {} THEN [kind |-> "Err", expr |-> NoExpr]
        ELSE LET d == expression(CHOOSE row \in m : TRUE)
             IN  IF d.ok THEN [kind |-> "Some", expr |-> d.expr]
                 ELSE [kind |-> "Err", expr |-> NoExpr]

\* fetch_optional: the first matching row, if any
get_policy(rows, r, a) ==
    LET m == Matching(rows, r, a)
    IN  IF m = {} THEN [kind |-> "None", expr |-> NoExpr]
        ELSE LET d == expression(CHOOSE row \in m : TRUE)
             IN  IF d.ok THEN [kind |-> "Some", expr |-> d.expr]
                 ELSE [kind |-> "Err", expr |-> NoExpr]

\* set_policy with a plain INSERT on a table without the primary key
set_policy_insert(rows, row) == rows \cup {row}

\* set_policy with INSERT OR IGNORE: the stored row wins
set_policy_ignore(rows, row) ==
    IF Matching(rows, row.resource, row.action) = {} THEN rows \cup {row} ELSE rows

\* INSERT OR REPLACE: rows in conflict on the primary key are deleted, then the row is inserted
set_policy(rows, row) ==
    {x \in rows : PrimaryKey(x) # PrimaryKey(row)} \cup {row}

\* delete_policy with `WHERE resource = ?` only
delete_policy_resource(rows, r, a) == rows \ ByResource(rows, r)

\* delete_policy with `WHERE action = ?` only
delete_policy_action(rows, r, a) == {row \in rows : row.action # a}

\* DELETE FROM policy WHERE resource = ? and action = ?
delete_policy(rows, r, a) == rows \ Matching(rows, r, a)

RECURSIVE RowsToSeq(_)
RowsToSeq(rows) ==
    IF rows = {} THEN <<>>
    ELSE LET row == CHOOSE x \in rows : TRUE
         IN  <<row>> \o RowsToSeq(rows \ {row})

\* get_policies_by_resource with filter_map(|r| r.expression().ok()): undecodable rows are skipped
get_policies_by_resource_skip(rows, r) ==
    LET fetched == RowsToSeq({row \in ByResource(rows, r) : expression(row).ok})
    IN  [kind |-> "Ok",
         list |-> [i \in 1..Len(fetched) |->
                      [action |-> fetched[i].action, expr |-> expression(fetched[i]).expr]]]

\* fetch_all, then collect::<Result<Vec<_>>>: the first row that fails to decode fails the call
get_policies_by_resource(rows, r) ==
    LET fetched == RowsToSeq(ByResource(rows, r))
    IN  IF \E i \in 1..Len(fetched) : ~expression(fetched[i]).ok
        THEN [kind |-> "Err", list |-> <<>>]
        ELSE [kind |-> "Ok",
              list |-> [i \in 1..Len(fetched) |->
                           [action |-> fetched[i].action, expr |-> expression(fetched[i]).expr]]]

\* A completed call: its arguments (expr is set_policy's expression), the kind of
\* result, and n: for get_policies_by_resource the length of the list, for
\* delete_policy the rows deleted, for set_policy the rows holding another expression
\* that were replaced. raced is the Query's flag.
Ret(op, r, a, kind, n, expr, raced) ==
    [op |-> op, resource |-> r, action |-> a, kind |-> kind, n |-> n, expr |-> expr, raced |-> raced]

Replaced(rows, row) ==
    Cardinality({x \in Matching(rows, row.resource, row.action) : x.expression # row.expression})

\* A bound INSERT OR REPLACE; raced records that the call began while another
\* set_policy call on the same key with another expression was awaiting execution
Query(row, e, raced) == [row |-> row, expr |-> e, raced |-> raced]

Conflicting(queries, row) ==
    {q \in queries : /\ q.row.resource = row.resource
                     /\ q.row.action = row.action
                     /\ q.row.expression # row.expression}

TransportsIdle ==
    /\ UNCHANGED <<transports, registered, lock, queried, rpc, input, snapshot, idx, resolved, asked, result>>
    /\ CredentialsIdle
    /\ InletIdle
    /\ UsersIdle
    /\ EnrollIdle

\* set_policy, from call to return
SetPolicy ==
    /\ \E r \in Resources, a \in Actions, e \in Exprs :
           LET row == PolicyRow(r, a, to_vec(e))
           IN  /\ policy' = set_policy(policy, row)
               /\ ret' = Ret("set", r, a, "Ok", Replaced(policy, row), e, FALSE)
    /\ UNCHANGED inflight
    /\ TransportsIdle

\* set_policy up to the await: the query is bound to the encoded expression
SetPolicyCall ==
    /\ BagCardinality(inflight) < NumCallers
    /\ \E r \in Resources, a \in Actions, e \in Exprs :
           LET row == PolicyRow(r, a, to_vec(e))
               raced == Conflicting(BagToSet(inflight), row) # {}
           IN  inflight' = inflight (+) SetToBag({Query(row, e, raced)})
    /\ UNCHANGED <<policy, ret>>
    /\ TransportsIdle

\* set_policy from the await on: the statement executes atomically
SetPolicyExec ==
    /\ \E q \in BagToSet(inflight) :
           /\ policy' = set_policy(policy, q.row)
           /\ ret' = Ret("set", q.row.resource, q.row.action, "Ok", Replaced(policy, q.row), q.expr, q.raced)
           /\ inflight' = inflight (-) SetToBag({q})
    /\ TransportsIdle

\* delete_policy; n is the statement's rows_affected, which void() drops
DeletePolicy ==
    /\ \E r \in Resources, a \in Actions :
           /\ policy' = delete_policy(policy, r, a)
           /\ ret' = Ret("delete", r, a, "Ok", Cardinality(Matching(policy, r, a)), NoExpr, FALSE)
    /\ UNCHANGED inflight
    /\ TransportsIdle

GetPolicy ==
    /\ \E r \in Resources, a \in Actions :
           LET res == get_policy(policy, r, a)
           IN  ret' = Ret("get", r, a, res.kind, 0, res.expr, FALSE)
    /\ UNCHANGED <<policy, inflight>>
    /\ TransportsIdle

GetPoliciesByResource ==
    /\ \E r \in Resources :
           LET res == get_policies_by_resource(policy, r)
           IN  ret' = Ret("list", r, "", res.kind, Len(res.list), NoExpr, FALSE)
    /\ UNCHANGED <<policy, inflight>>
    /\ TransportsIdle

\* The table is a file on disk: a row's bytes may have been written by something
\* other than this version of set_policy.
ForeignWrite ==
    /\ \E r \in Resources, a \in Actions, b \in CorruptBytes :
           policy' = set_policy(policy, PolicyRow(r, a, b))
    /\ ret' = Ret("foreign", "", "", "Ok", 0, NoExpr, FALSE)
    /\ UNCHANGED inflight
    /\ TransportsIdle

PolicyInit ==
    /\ policy = {}
    /\ inflight = EmptyBag
    /\ ret = Ret("none", "", "", "Ok", 0, NoExpr, FALSE)

\* One caller at a time
PolicyNext ==
    \/ SetPolicy
    \/ DeletePolicy
    \/ GetPolicy
    \/ GetPoliciesByResource
    \/ ForeignWrite

\* Up to NumCallers set_policy calls in flight at once
ConcurrentNext ==
    \/ SetPolicyCall
    \/ SetPolicyExec

(***************************************************************************)
(* Policy store: properties                                                *)
(***************************************************************************)
Keys == Resources \X Actions

\* C1: right after set_policy(r, a, e), get_policy(r, a) returns Some(e') with e'
\* structurally equal to e, whatever the store held before.
C1_SetThenGet ==
    ret.op = "set" =>
        LET g == get_policy(policy, ret.resource, ret.action)
        IN  g.kind = "Some" /\ equals(g.expr, ret.expr)

C1_Witness ==
    /\ ret.op = "set"
    /\ ret.n = 1
    /\ ret.expr # EqNameMe
    /\ get_policy(policy, ret.resource, ret.action) = [kind |-> "Some", expr |-> ret.expr]
    /\ \E a \in Actions : a # ret.action /\ Matching(policy, ret.resource, a) # {}

\* C2: the store holds at most one row per (resource, action); after set_policy the
\* row of the key is the one just written and get_policies_by_resource lists the
\* action once.
C2_OnePerKey ==
    /\ \A k \in Keys : Cardinality(Matching(policy, k[1], k[2])) <= 1
    /\ ret.op = "set" =>
           LET l == get_policies_by_resource(policy, ret.resource)
           IN  /\ Matching(policy, ret.resource, ret.action)
                      = {PolicyRow(ret.resource, ret.action, to_vec(ret.expr))}
               /\ l.kind = "Ok" =>
                      Cardinality({i \in 1..Len(l.list) : l.list[i].action = ret.action}) = 1

C2_Witness ==
    /\ ret.op = "set"
    /\ ret.n = 1
    /\ get_policies_by_resource(policy, ret.resource).kind = "Ok"
    /\ Len(get_policies_by_resource(policy, ret.resource).list) = 2

\* C3: the length of get_policies_by_resource(r) grows by one when set_policy adds an
\* action not yet under r, stays the same when it overwrites one, and shrinks by one
\* when delete_policy removes an action that was under r.
C3_ListLength ==
    [][\A r \in Resources :
          LET before == get_policies_by_resource(policy, r)
              after == get_policies_by_resource(policy', r)
              present == Matching(policy, r, ret'.action) # {}
          IN  (before.kind = "Ok" /\ after.kind = "Ok" /\ ret'.resource = r) =>
                  /\ ret'.op = "set" =>
                         Len(after.list) = Len(before.list) + (IF present THEN 0 ELSE 1)
                  /\ (ret'.op = "delete" /\ present) =>
                         Len(after.list) + 1 = Len(before.list)]_vars

C3_Witness ==
    /\ ret.op = "delete"
    /\ ret.n = 1
    /\ get_policies_by_resource(policy, ret.resource).kind = "Ok"
    /\ Len(get_policies_by_resource(policy, ret.resource).list) = 1

\* C4: delete_policy(r, a) leaves get_policy of every other key as it was.
C4_DeleteFrame ==
    [][ret'.op = "delete" =>
          \A k \in Keys :
              k # <<ret'.resource, ret'.action>> =>
                  get_policy(policy', k[1], k[2]) = get_policy(policy, k[1], k[2])]_vars

C4_Witness ==
    /\ ret.op = "delete"
    /\ ret.n = 1
    /\ \A k \in Keys :
           k # <<ret.resource, ret.action>> => get_policy(policy, k[1], k[2]).kind = "Some"

\* C5: delete_policy of an absent key succeeds and changes nothing; get_policy of an
\* absent key returns None.
C5_AbsentKey ==
    [][Matching(policy, ret'.resource, ret'.action) = {} =>
          /\ ret'.op = "delete" => (ret'.kind = "Ok" /\ policy' = policy)
          /\ ret'.op = "get" => ret'.kind = "None"]_vars

C5_Witness ==
    /\ ret.op = "delete"
    /\ ret.n = 0
    /\ ret.kind = "Ok"
    /\ policy # {}
    /\ get_policy(policy, ret.resource, ret.action).kind = "None"

\* C6: while the bytes stored under (r, a) do not decode, get_policy(r, a) is an error
\* and not None, and get_policies_by_resource(r) is an error.
C6_CorruptionSurfaced ==
    \A row \in policy :
        ~decode(row.expression).ok =>
            /\ get_policy(policy, row.resource, row.action).kind = "Err"
            /\ get_policies_by_resource(policy, row.resource).kind = "Err"
            /\ (ret.op = "get" /\ ret.resource = row.resource /\ ret.action = row.action) =>
                   ret.kind = "Err"
            /\ (ret.op = "list" /\ ret.resource = row.resource) => ret.kind = "Err"

C6_Witness ==
    /\ ret.op = "list"
    /\ ret.kind = "Err"
    /\ \E row \in ByResource(policy, ret.resource) : decode(row.expression).ok
    /\ \E row \in ByResource(policy, ret.resource) : row.expression \in CorruptBytes

\* C7: under concurrent set_policy calls the key of the write applied last holds exactly
\* that write, every key holds at most one row, and a write touches no other key.
C7_LastWriterWins ==
    /\ [](/\ \A k \in Keys : Cardinality(Matching(policy, k[1], k[2])) <= 1
          /\ ret.op = "set" =>
                 Matching(policy, ret.resource, ret.action)
                     = {PolicyRow(ret.resource, ret.action, to_vec(ret.expr))})
    /\ [][\A k \in Keys :
              Matching(policy', k[1], k[2]) # Matching(policy, k[1], k[2]) =>
                  /\ ret'.op = "set"
                  /\ k = <<ret'.resource, ret'.action>>]_vars

C7_Witness ==
    /\ inflight = EmptyBag
    /\ ret.op = "set"
    /\ ret.raced
    /\ ret.n = 1
    /\ Matching(policy, ret.resource, ret.action)
           = {PolicyRow(ret.resource, ret.action, to_vec(ret.expr))}


(***************************************************************************)
(* Context: transport registry and route resolution                        *)
(***************************************************************************)
Local == 0
TransportTypes == {1, 10}
Payloads == {"a", "b"}

Address(tt, addr) == [tt |-> tt, addr |-> addr]
Addresses == {Address(tt, addr) : tt \in TransportTypes \cup {Local}, addr \in Payloads}
Routes == UNION {[1..n -> Addresses] : n \in 0..MaxRouteLen}

\* Route::is_local
is_local(route) == \A i \in 1..Len(route) : route[i].tt = Local

NoTransport == [tt |-> Local, id |-> 0, faulty |-> FALSE]
Transport(tt, id, faulty) == [tt |-> tt, id |-> id, faulty |-> faulty]

\* Transport::resolve_route: every address of the transport's own type becomes a local
\* address, the others are kept; a faulty transport fails on a route holding its type
resolve_route(transport, route) ==
    IF transport.faulty /\ \E i \in 1..Len(route) : route[i].tt = transport.tt
    THEN [ok |-> FALSE, route |-> <<>>]
    ELSE [ok |-> TRUE,
          route |-> [i \in 1..Len(route) |->
                        IF route[i].tt = transport.tt
                        THEN Address(Local, route[i].addr)
                        ELSE route[i]]]

\* register_transport with entry(type).or_insert(transport): the first adapter stays
register_transport_keep_first(map, transport) ==
    IF map[transport.tt] = NoTransport THEN [map EXCEPT ![transport.tt] = transport] ELSE map

\* transports.insert(transport.transport_type(), transport)
register_transport(map, transport) == [map EXCEPT ![transport.tt] = transport]

\* transports.contains_key(&transport_type)
is_transport_registered(map, tt) == tt \in DOMAIN map /\ map[tt] # NoTransport

Present(map) == {map[tt] : tt \in {t \in DOMAIN map : map[t] # NoTransport}}

\* transports.values(): the adapters of the map, each once, in the map's iteration order
values(map) ==
    {s \in [1..Cardinality(Present(map)) -> Present(map)] :
        \A i, j \in DOMAIN s : i # j => s[i] # s[j]}

\* What `{:?}` is given to format: the unit value, or a route
DebugUnit == [unit |-> TRUE, route |-> <<>>]
DebugRoute(route) == [unit |-> FALSE, route |-> route]

\* An error: where it comes from, the adapter it comes from if any, and what its
\* message was formatted with
Error(origin, id, arg) == [origin |-> origin, id |-> id, arg |-> arg]
NoError == Error("none", 0, DebugUnit)

\* the error of a transport's own resolve_route
TransportError(transport) == Error("adapter", transport.id, DebugUnit)

\* Error::new(Origin::Transport, Kind::NotFound, format!("the route {:?} could not be
\* fully resolved to local addresses", {})): the block `{}` is the unit value
NotFoundError(route) == Error("Transport", 0, DebugUnit)

Result(kind, route, error) == [kind |-> kind, route |-> route, error |-> error]

PolicyIdle ==
    /\ UNCHANGED <<policy, inflight, ret>>
    /\ CredentialsIdle
    /\ InletIdle
    /\ UsersIdle
    /\ EnrollIdle

\* register_transport: lock, insert, unlock; the call has no await
RegisterTransport ==
    /\ lock = "free"
    /\ Len(registered) < MaxRegistrations
    /\ \E tt \in TransportTypes, faulty \in BOOLEAN :
           /\ transports' = register_transport(transports, Transport(tt, Len(registered) + 1, faulty))
           /\ registered' = Append(registered, tt)
    /\ UNCHANGED <<lock, queried, rpc, input, snapshot, idx, resolved, asked, result>>
    /\ PolicyIdle

\* The answer of a query made after `at` registrations
Queried(tt, answer, at) == [tt |-> tt, answer |-> answer, at |-> at]

\* is_transport_registered: lock, contains_key, unlock; the call has no await
IsTransportRegistered ==
    /\ lock = "free"
    /\ \E tt \in TransportTypes :
           queried' = Queried(tt, is_transport_registered(transports, tt), Len(registered))
    /\ UNCHANGED <<transports, registered, lock, rpc, input, snapshot, idx, resolved, asked, result>>
    /\ PolicyIdle

\* a resolver that keeps the guard in a variable: the mutex stays locked during the loop
LockAfterCloneHeld == "resolve"

\* `self.transports.lock().unwrap().clone()`: the guard is a temporary of the
\* statement and is dropped at its end
LockAfterClone == "free"

\* resolve_transport_route is called and takes the registry mutex. A call uses nothing
\* of an earlier call, so one call is followed from any state of the registry.
ResolveLock ==
    /\ rpc = "idle"
    /\ lock = "free"
    /\ lock' = "resolve"
    /\ rpc' = "clone"
    /\ \E route \in Routes : input' = route
    /\ UNCHANGED <<transports, registered, queried, snapshot, idx, resolved, asked, result>>
    /\ PolicyIdle

\* resolve_transport_route up to the first await: the registry is cloned under the lock;
\* with nothing to iterate the loop is skipped and the error is returned
ResolveStart ==
    /\ rpc = "clone"
    /\ \E order \in values(transports) :
           /\ snapshot' = order
           /\ resolved' = input
           /\ IF order = <<>>
              THEN /\ rpc' = "done"
                   /\ result' = Result("NotFound", <<>>, NotFoundError(input))
                   /\ lock' = "free"
              ELSE /\ rpc' = "loop"
                   /\ result' = Result("none", <<>>, NoError)
                   /\ lock' = LockAfterClone
    /\ idx' = 1
    /\ asked' = <<>>
    /\ UNCHANGED <<transports, registered, queried, input>>
    /\ PolicyIdle

\* an iteration that takes the first transport again
CurrentFirst(snap, i) == snap[1]

\* `for transport in transports.values()`: the transport of this iteration
Current(snap, i) == snap[i]

\* a loop that returns the route it has after the last transport without the is_local test
OutcomeUnchecked(r, last) ==
    IF ~r.ok THEN "TransportError"
    ELSE IF is_local(r.route) \/ last THEN "Ok"
    ELSE "none"

\* a loop that answers a transport's error with its own NotFound
OutcomeErrorAsNotFound(r, last) ==
    IF ~r.ok THEN "NotFound"
    ELSE IF is_local(r.route) THEN "Ok"
    ELSE IF last THEN "NotFound"
    ELSE "none"

\* a loop without the early return: the route is looked at after the last transport only
OutcomeNoEarlyReturn(r, last) ==
    IF ~r.ok THEN "TransportError"
    ELSE IF ~last THEN "none"
    ELSE IF is_local(r.route) THEN "Ok"
    ELSE "NotFound"

\* What one iteration makes of the awaited r: `?` returns the transport's error, a local
\* route is returned, and after the last transport the loop ends in the NotFound error
Outcome(r, last) ==
    IF ~r.ok THEN "TransportError"
    ELSE IF is_local(r.route) THEN "Ok"
    ELSE IF last THEN "NotFound"
    ELSE "none"

\* one iteration of the loop: the await of transport.resolve_route, `?`, the is_local
\* test, and after the last transport the NotFound error
ResolvePass ==
    /\ rpc = "loop"
    /\ LET transport == Current(snapshot, idx)
           r == resolve_route(transport, resolved)
           kind == Outcome(r, idx = Len(snapshot))
       IN  /\ asked' = Append(asked, transport)
           /\ resolved' = IF r.ok THEN r.route ELSE resolved
           /\ idx' = IF r.ok THEN idx + 1 ELSE idx
           /\ rpc' = IF kind = "none" THEN "loop" ELSE "done"
           /\ result' = Result(kind,
                                IF kind = "Ok" THEN r.route ELSE <<>>,
                                CASE kind = "TransportError" -> TransportError(transport)
                                  [] kind = "NotFound" -> NotFoundError(r.route)
                                  [] OTHER -> NoError)
           /\ lock' = IF kind = "none" THEN lock ELSE "free"
    /\ UNCHANGED <<transports, registered, queried, input, snapshot>>
    /\ PolicyIdle

TransportsInit ==
    /\ transports = [tt \in TransportTypes |-> NoTransport]
    /\ registered = <<>>
    /\ lock = "free"
    /\ queried = Queried(Local, FALSE, 0)
    /\ rpc = "idle"
    /\ input = <<>>
    /\ snapshot = <<>>
    /\ idx = 1
    /\ resolved = <<>>
    /\ asked = <<>>
    /\ result = Result("none", <<>>, NoError)

\* The registry and its queries, no resolution going on
RegistryNext ==
    \/ RegisterTransport
    \/ IsTransportRegistered

TransportsNext ==
    \/ RegisterTransport
    \/ ResolveLock
    \/ ResolveStart
    \/ ResolvePass

(***************************************************************************)
(* Route resolution: properties                                            *)
(***************************************************************************)
SnapshotTypes == {snapshot[i].tt : i \in DOMAIN snapshot}
RouteTypes(route) == {route[i].tt : i \in DOMAIN route}

\* C8: a finished resolution is Ok only with a fully local route; it is NotFound when
\* every transport of the snapshot had its pass and a non-local address remains, and in
\* particular when the route has non-local addresses and no transport handles any of
\* its address types.
C8_NotFoundUnlessLocal ==
    rpc = "done" =>
        /\ result.kind = "Ok" => (is_local(result.route) /\ result.route = resolved)
        /\ (Len(asked) = Len(snapshot) /\ result.kind # "TransportError" /\ ~is_local(resolved))
               => result.kind = "NotFound"
        /\ (~is_local(input) /\ RouteTypes(input) \cap SnapshotTypes = {})
               => result.kind = "NotFound"

C8_Witness ==
    /\ rpc = "done"
    /\ result.kind = "NotFound"
    /\ Len(asked) = 1
    /\ resolved # input
    /\ ~is_local(resolved)

\* C9: for every registry, the empty one included, resolving a fully local route
\* succeeds and returns the route unchanged.
C9_LocalRouteUnchanged ==
    (rpc = "done" /\ is_local(input)) => result = Result("Ok", input, NoError)

\* C10 as stated: a transport registered before another is asked before it.
C10_RegistrationOrder ==
    \A i, j \in DOMAIN asked : i < j => asked[i].id < asked[j].id

\* C10: the transports of the snapshot are asked one after another, each at most once,
\* in the order in which values() iterates the cloned map; every one of them was
\* registered under its type.
C10_IterationOrder ==
    /\ Len(asked) <= Len(snapshot)
    /\ asked = SubSeq(snapshot, 1, Len(asked))
    /\ \A i, j \in DOMAIN asked : i # j => asked[i].tt # asked[j].tt
    /\ \A i \in DOMAIN asked :
           asked[i].id \in DOMAIN registered /\ registered[asked[i].id] = asked[i].tt

C10_Witness ==
    /\ rpc = "done"
    /\ Len(asked) = 2
    /\ asked[1].id > asked[2].id
    /\ result.kind = "Ok"

\* C11: as soon as the route is fully local after a transport's pass the resolver
\* returns it: the loop never goes on with a local route, an Ok result comes with the
\* pass that made the route local, and no transport is asked once the call has returned.
C11_EarlyReturn ==
    /\ [](/\ (rpc = "loop" /\ Len(asked) >= 1) => ~is_local(resolved)
          /\ (rpc = "done" /\ result.kind = "Ok") =>
                 /\ asked = SubSeq(snapshot, 1, Len(asked))
                 /\ resolve_route(asked[Len(asked)], resolved).route = result.route)
    /\ [][rpc = "done" => (asked' = asked /\ rpc' = "done")]_vars

C11_Witness ==
    /\ rpc = "done"
    /\ result.kind = "Ok"
    /\ Len(asked) = 1
    /\ Len(snapshot) = 2
    /\ ~is_local(input)

RegisteredTypes == {registered[i] : i \in DOMAIN registered}
LastRegistration(tt) ==
    CHOOSE i \in DOMAIN registered :
        registered[i] = tt /\ \A j \in DOMAIN registered : registered[j] = tt => j <= i

\* C12: is_transport_registered(t) holds exactly for the registered types, the registry
\* has one adapter per registered type, and it is the one registered last for the type.
C12_RegistryReflectsRegistrations ==
    /\ \A tt \in TransportTypes :
           /\ is_transport_registered(transports, tt) <=> tt \in RegisteredTypes
           /\ tt \in RegisteredTypes =>
                  (transports[tt].tt = tt /\ transports[tt].id = LastRegistration(tt))
    /\ Cardinality(Present(transports)) = Cardinality(RegisteredTypes)
    /\ queried.answer <=> queried.tt \in {registered[i] : i \in 1..queried.at}

C12_Witness ==
    /\ Len(registered) = 3
    /\ registered[1] = registered[3]
    /\ registered[2] # registered[1]
    /\ transports[registered[1]].id = 3
    /\ queried = Queried(registered[1], TRUE, 3)

SnapshotIds == {snapshot[i].id : i \in DOMAIN snapshot}

\* C13: the mutex is held while the registry is cloned and never while a transport's
\* resolve_route is awaited, so register_transport and is_transport_registered can run
\* during a resolution; the resolution asks adapters of its snapshot only and the
\* snapshot does not follow later registrations.
C13_LockOnlyForClone ==
    /\ [](/\ rpc = "loop" => lock = "free"
          /\ rpc = "clone" <=> lock = "resolve"
          /\ rpc = "loop" => ENABLED IsTransportRegistered
          /\ (rpc = "loop" /\ Len(registered) < MaxRegistrations) => ENABLED RegisterTransport
          /\ \A i \in DOMAIN asked : \E j \in DOMAIN snapshot : asked[i] = snapshot[j])
    /\ [][(rpc = "loop" \/ rpc = "done") => snapshot' = snapshot]_vars

C13_Witness ==
    /\ rpc = "loop"
    /\ Len(asked) = 1
    /\ Len(registered) = 3
    /\ 3 \notin SnapshotIds
    /\ transports[registered[3]].id = 3

\* C27: the NotFound error of a resolution tells the route that could not be
\* resolved: its message is formatted with that route
C27_NotFoundNamesRoute ==
    (rpc = "done" /\ result.kind = "NotFound") =>
        result.error.arg \in {DebugRoute(resolved), DebugRoute(input)}

\* C29: when a transport's pass fails the resolution is over with that transport's
\* own error: the transports asked are the snapshot's up to the failing one, no other
\* is asked afterwards, and the error is not the resolver's NotFound
C29_TransportErrorStops ==
    /\ []((rpc = "done" /\ asked # <<>> /\ ~resolve_route(asked[Len(asked)], resolved).ok) =>
              /\ result.kind = "TransportError"
              /\ result.error = TransportError(asked[Len(asked)])
              /\ result.error # NotFoundError(resolved)
              /\ asked = SubSeq(snapshot, 1, Len(asked)))
    /\ []((rpc = "done" /\ result.kind = "TransportError") =>
              (asked # <<>> /\ ~resolve_route(asked[Len(asked)], resolved).ok))
    /\ [][(rpc = "done" /\ result.kind = "TransportError") => (asked' = asked /\ result' = result)]_vars

C29_Witness ==
    /\ rpc = "done"
    /\ result.kind = "TransportError"
    /\ Len(asked) = 1
    /\ Len(snapshot) = 2
    /\ result.error.id = asked[1].id

(***************************************************************************)
(* NodeManagerWorker: get_credential and present_credential                *)
(***************************************************************************)
NodeIdentifier == "node"
Identifiers == {NodeIdentifier, "alice"}
\* identity_name of a request: none (the node's own identity), a known name, an unknown one
IdentityNames == {"", "alice", "nobody"}
Authorities == {"authority"}
Issuers == Authorities \cup {"rogue"}

\* get_identifier_by_name
get_identifier_by_name(name) ==
    IF name = "" THEN [ok |-> TRUE, identifier |-> NodeIdentifier]
    ELSE IF name \in Identifiers THEN [ok |-> TRUE, identifier |-> name]
    ELSE [ok |-> FALSE, identifier |-> ""]

\* NodeManager::get_credential(ctx, identifier, None): the cached credential when there
\* is one; else the authority is asked: it issues a credential, which is cached ("up"),
\* fails ("down"), or there is none to ask ("absent")
node_get_credential(cache, n, identifier, authority) ==
    IF cache[identifier] # 0
    THEN [kind |-> "Some", cred |-> cache[identifier], cache |-> cache, issued |-> n, contacted |-> FALSE]
    ELSE IF authority = "up"
    THEN [kind |-> "Some", cred |-> n + 1, cache |-> [cache EXCEPT ![identifier] = n + 1],
          issued |-> n + 1, contacted |-> TRUE]
    ELSE IF authority = "down"
    THEN [kind |-> "Err", cred |-> 0, cache |-> cache, issued |-> n, contacted |-> TRUE]
    ELSE [kind |-> "None", cred |-> 0, cache |-> cache, issued |-> n, contacted |-> FALSE]

AuthorityStates == {"up", "down", "absent"}

GcRet(overwrite, name, status, cred, contacted, before) ==
    [overwrite |-> overwrite, name |-> name, status |-> status, cred |-> cred,
     contacted |-> contacted, before |-> before]

\* The response to the outcome of the lookup
GetCredentialStatus(kind) ==
    CASE kind = "Some" -> "Ok"
      [] kind = "None" -> "NotFound"
      [] kind = "Err" -> "InternalError"

\* NodeManagerWorker::get_credential: the request is decoded, the identifier looked up,
\* and the node manager asked for its credential; request.overwrite is not read
GetCredential ==
    /\ \E overwrite \in BOOLEAN, name \in IdentityNames, authority \in AuthorityStates :
           LET id == get_identifier_by_name(name)
               r == node_get_credential(credCache, issued, id.identifier, authority)
           IN  IF ~id.ok
               THEN /\ gcRet' = GcRet(overwrite, name, "Err", 0, FALSE, 0)
                    /\ UNCHANGED <<credCache, issued>>
               ELSE /\ credCache' = r.cache
                    /\ issued' = r.issued
                    /\ gcRet' = GcRet(overwrite, name, GetCredentialStatus(r.kind), r.cred,
                                      r.contacted, credCache[id.identifier])
    /\ UNCHANGED <<ppc, preq, plookup, ptrust, psent, pexch, presp>>
    /\ CoreIdle
    /\ InletIdle

\* Kinds of request: one that does not decode, a route text that is no MultiAddr, a
\* MultiAddr that is no local route, a local route
RouteTexts == {"undecodable", "unparsable", "remote", "local"}

PReq(text, oneway) == [text |-> text, oneway |-> oneway]
PLookup(kind, cred) == [kind |-> kind, cred |-> cred]
PSent(mode, cred, authorities) == [mode |-> mode, cred |-> cred, authorities |-> authorities]
PExch(outcome, issuer, checked) == [outcome |-> outcome, issuer |-> issuer, checked |-> checked]

NothingSent == PSent("none", 0, {})
NoExchange == PExch("none", "", FALSE)

\* present_credential up to the first await: dec.decode()?, MultiAddr::from_str,
\* local_multiaddr_to_route
PresentCall ==
    /\ ppc = "idle"
    /\ \E text \in RouteTexts, oneway \in BOOLEAN :
           /\ preq' = PReq(text, oneway)
           /\ IF text = "local"
              THEN ppc' = "lookup" /\ presp' = "none"
              ELSE ppc' = "done" /\ presp' = "Error"
    /\ UNCHANGED <<credCache, issued, gcRet, plookup, ptrust, psent, pexch>>
    /\ CoreIdle
    /\ InletIdle

\* an unwrap_or_default: without a credential an empty one is presented
UnwrapOrDefault(lookup) ==
    IF lookup.kind = "Err" THEN "Error" ELSE "Go"

\* an ok_or(..)?: without a credential an error is returned
UnwrapOrError(lookup) ==
    IF lookup.kind = "Some" THEN "Go" ELSE "Error"

\* `.await?.unwrap_or_else(|| panic!(..))`: an error is returned, no credential panics
Unwrap(lookup) ==
    CASE lookup.kind = "Err" -> "Error"
      [] lookup.kind = "None" -> "Panic"
      [] lookup.kind = "Some" -> "Go"

\* a handler that presents one-way whatever the request says
ExchangeModeOneway(oneway) == "oneway"

\* `if request.oneway { present_credential } else { present_credential_mutual }`
ExchangeMode(oneway) == IF oneway THEN "oneway" ELSE "mutual"

\* the await of the lookup of the node's own credential, and what follows it up to the
\* await of the exchange: the unwrap, the choice of the exchange, trust_context()?
PresentLookup ==
    /\ ppc = "lookup"
    /\ \E authority \in AuthorityStates, trust \in {"missing", "configured"} :
           LET r == node_get_credential(credCache, issued, NodeIdentifier, authority)
               lookup == PLookup(r.kind, r.cred)
               go == Unwrap(lookup)
               mode == ExchangeMode(preq.oneway)
           IN  /\ credCache' = r.cache
               /\ issued' = r.issued
               /\ plookup' = lookup
               /\ IF go # "Go"
                  THEN /\ ppc' = "done"
                       /\ presp' = go
                       /\ UNCHANGED <<psent, ptrust>>
                  ELSE IF mode = "oneway"
                  THEN /\ ppc' = "send"
                       /\ psent' = PSent("oneway", lookup.cred, {})
                       /\ UNCHANGED <<presp, ptrust>>
                  ELSE /\ ptrust' = trust
                       /\ IF trust = "missing"
                          THEN /\ ppc' = "done"
                               /\ presp' = "Error"
                               /\ UNCHANGED psent
                          ELSE /\ ppc' = "send"
                               /\ psent' = PSent("mutual", lookup.cred, Authorities)
                               /\ UNCHANGED presp
    /\ UNCHANGED <<gcRet, preq, pexch>>
    /\ CoreIdle
    /\ InletIdle

\* CredentialsService::present_credential: the credential goes to the peer; the
\* exchange succeeds when the peer accepts it over a working route
present_credential(linkOk) == [ok |-> linkOk, checked |-> FALSE]

\* CredentialsService::present_credential_mutual: as above, and the credential the peer
\* presents must be issued by one of the given authorities
present_credential_mutual(linkOk, authorities, issuer) ==
    [ok |-> linkOk /\ issuer \in authorities, checked |-> linkOk]

\* the await of the exchange, `?`, and the OK response
PresentReply ==
    /\ ppc = "send"
    /\ \E linkOk \in BOOLEAN, issuer \in Issuers :
           LET x == IF psent.mode = "oneway"
                    THEN present_credential(linkOk)
                    ELSE present_credential_mutual(linkOk, psent.authorities, issuer)
           IN  /\ pexch' = PExch(IF x.ok THEN "ok" ELSE "failed", issuer, x.checked)
               /\ presp' = IF x.ok THEN "Ok" ELSE "Error"
    /\ ppc' = "done"
    /\ UNCHANGED <<credCache, issued, gcRet, preq, plookup, ptrust, psent>>
    /\ CoreIdle
    /\ InletIdle

\* the next present_credential request
PresentAgain ==
    /\ ppc = "done"
    /\ presp # "Panic"
    /\ ppc' = "idle"
    /\ preq' = PReq("undecodable", FALSE)
    /\ plookup' = PLookup("none", 0)
    /\ ptrust' = "unread"
    /\ psent' = NothingSent
    /\ pexch' = NoExchange
    /\ presp' = "none"
    /\ UNCHANGED <<credCache, issued, gcRet>>
    /\ CoreIdle
    /\ InletIdle

CredentialsInit ==
    /\ credCache = [i \in Identifiers |-> 0]
    /\ issued = 0
    /\ gcRet = GcRet(FALSE, "", "none", 0, FALSE, 0)
    /\ ppc = "idle"
    /\ preq = PReq("undecodable", FALSE)
    /\ plookup = PLookup("none", 0)
    /\ ptrust = "unread"
    /\ psent = NothingSent
    /\ pexch = NoExchange
    /\ presp = "none"

CredentialsNext ==
    \/ GetCredential
    \/ PresentCall
    \/ PresentLookup
    \/ PresentReply
    \/ PresentAgain

GcIdentifier == get_identifier_by_name(gcRet.name).identifier

\* C14: a get_credential answered with a credential returns the cached one without
\* asking the authority when one was cached and overwrite is false; with overwrite
\* true, or none cached, the authority is asked and its credential is the one cached
C14_OverwriteRefetches ==
    gcRet.status = "Ok" =>
        IF ~gcRet.overwrite /\ gcRet.before # 0
        THEN gcRet.cred = gcRet.before /\ ~gcRet.contacted
        ELSE gcRet.contacted /\ credCache[GcIdentifier] = gcRet.cred

\* C15: what is sent to the peer is the credential the lookup for the node's own
\* identifier returned; a lookup that failed or returned none sends nothing, and
\* nothing is sent before the lookup
C15_SendsOnlyLookedUp ==
    /\ psent.mode # "none" =>
           /\ plookup.kind = "Some"
           /\ plookup.cred # 0
           /\ psent.cred = plookup.cred
           /\ psent.cred = credCache[NodeIdentifier]
    /\ plookup.kind \in {"Err", "None", "none"} => psent = NothingSent
    /\ ppc \in {"idle", "lookup"} => psent = NothingSent

C15_Witness ==
    /\ ppc = "done"
    /\ presp = "Ok"
    /\ psent.mode = "mutual"
    /\ psent.cred = 2
    /\ credCache["alice"] = 1

\* C16: with oneway false the exchange is the mutual one with the configured
\* authorities, and the response is OK only when the peer's credential passed the
\* check against them; a failed check or a missing trust context ends in an error.
\* With oneway true the exchange is the one-way one and no check is made
C16_MutualChecksAuthorities ==
    /\ (psent.mode # "none" /\ ~preq.oneway) =>
           psent.mode = "mutual" /\ ptrust = "configured" /\ psent.authorities = Authorities
    /\ (psent.mode # "none" /\ preq.oneway) => psent.mode = "oneway" /\ ~pexch.checked
    /\ (presp = "Ok" /\ ~preq.oneway) =>
           pexch.checked /\ pexch.outcome = "ok" /\ pexch.issuer \in Authorities
    /\ (ppc = "done" /\ ~preq.oneway /\ plookup.kind = "Some") =>
           ((ptrust = "missing" \/ (pexch.checked /\ pexch.issuer \notin Authorities)) => presp = "Error")

C16_Witness ==
    /\ ppc = "done"
    /\ ~preq.oneway
    /\ presp = "Error"
    /\ pexch.checked
    /\ pexch.issuer = "rogue"

\* C17: the handler ends in a panic exactly when the lookup returned no credential;
\* an unreadable request, an unparsable or non-local route, a failed lookup, a
\* missing trust context and a failed exchange end in an error; OK only without failure
C17_SingleAbortPath ==
    ppc = "done" =>
        /\ presp \in {"Ok", "Error", "Panic"}
        /\ presp = "Panic" <=> plookup.kind = "None"
        /\ presp = "Ok" <=>
               /\ preq.text = "local"
               /\ plookup.kind = "Some"
               /\ preq.oneway \/ ptrust = "configured"
               /\ pexch.outcome = "ok"
        /\ presp = "Error" <=>
               \/ preq.text # "local"
               \/ plookup.kind = "Err"
               \/ plookup.kind = "Some" /\ ~preq.oneway /\ ptrust = "missing"
               \/ pexch.outcome = "failed"

C17_Witness == ppc = "done" /\ presp = "Panic" /\ preq.text = "local" /\ psent = NothingSent

(***************************************************************************)
(* tcp inlet create: the attempt loop of rpc                               *)
(***************************************************************************)
\* Strings are sequences of tokens: "/" and the pieces between and within segments
ProjectPrefix == <<"/", "project", "/">>

\* default_to_addr
default_to_addr ==
    <<"/", "project", "/", "$PROJECT_NAME", "/", "service", "/", "forward_to_", "$RELAY_NAME",
      "/", "secure", "/", "api", "/", "service", "/", "outlet">>

\* format!("/project/{}/service/forward_to_{to}/secure/api/service/outlet", project_name)
RelayRoute(project_name, to) ==
    <<"/", "project", "/", project_name, "/", "service", "/", "forward_to_">> \o to \o
    <<"/", "secure", "/", "api", "/", "service", "/", "outlet">>

\* str::starts_with
starts_with(str, prefix) == Len(str) >= Len(prefix) /\ SubSeq(str, 1, Len(prefix)) = prefix

\* str::contains
contains(str, t) == \E i \in DOMAIN str : str[i] = t

\* a replace that leaves the text as it is
replace_nothing(str, from, to) == str

\* str::replace
replace(str, from, to) == [i \in DOMAIN str |-> IF str[i] = from THEN to ELSE str[i]]

\* the protocols a MultiAddr of these inputs is made of, each with one value
Protocols == {"project", "service", "secure"}

NoMultiAddr == [ok |-> FALSE, segs |-> <<>>]

\* the number of tokens of str from position i up to the next "/"
RECURSIVE ValueLen(_, _)
ValueLen(str, i) == IF i > Len(str) \/ str[i] = "/" THEN 0 ELSE 1 + ValueLen(str, i + 1)

\* MultiAddr::from_str: "/" protocol "/" value, repeated; an unknown protocol, a missing
\* value or text before the first "/" is an error
RECURSIVE from_str(_)
from_str(str) ==
    IF str = <<>> THEN [ok |-> TRUE, segs |-> <<>>]
    ELSE IF Len(str) < 4 \/ str[1] # "/" \/ str[2] \notin Protocols \/ str[3] # "/" THEN NoMultiAddr
    ELSE LET n == ValueLen(str, 4)
             rest == from_str(SubSeq(str, 4 + n, Len(str)))
         IN  IF n = 0 \/ ~rest.ok THEN NoMultiAddr
             ELSE [ok |-> TRUE,
                   segs |-> <<[proto |-> str[2], value |-> SubSeq(str, 4, 3 + n)]>> \o rest.segs]

\* MultiAddr::to_string
RECURSIVE to_string(_)
to_string(segs) ==
    IF segs = <<>> THEN <<>>
    ELSE <<"/", segs[1].proto, "/">> \o segs[1].value \o to_string(Tail(segs))

\* process_nodes_multiaddr: replaces /node segments; these addresses have none
process_nodes_multiaddr(segs) == segs

\* MultiAddr::matches(start, [code])
matches(segs, start, code) == Len(segs) > start /\ segs[start + 1].proto = code

Parsed(ok, to, err) == [ok |-> ok, to |-> to, err |-> err]

\* `if to.starts_with("/project/")`
HasPlaceholders(to) == starts_with(to, ProjectPrefix)

\* CreateCommand::parse_arg_to; default_project_name is {} or {name}
parse_arg_to(arg, default_project_name) ==
    LET project_name == CHOOSE n \in default_project_name : TRUE
        noProject == default_project_name = {}
        to == IF HasPlaceholders(arg) /\ ~noProject
              THEN replace(replace(arg, "$PROJECT_NAME", project_name), "$RELAY_NAME", "default")
              ELSE arg
        ma == from_str(to)
        relay == from_str(RelayRoute(project_name, to))
    IN  IF HasPlaceholders(arg) /\ noProject THEN Parsed(FALSE, <<>>, "MissingProject")
        ELSE IF ma.ok THEN Parsed(TRUE, to_string(process_nodes_multiaddr(ma.segs)), "none")
        ELSE IF contains(to, "/") THEN Parsed(FALSE, <<>>, "RelayNameWithSlash")
        ELSE IF noProject THEN Parsed(FALSE, <<>>, "MissingProject")
        ELSE IF relay.ok THEN Parsed(TRUE, to_string(process_nodes_multiaddr(relay.segs)), "none")
        ELSE Parsed(FALSE, <<>>, "InvalidAddress")

\* the values of --to: the default, a full project route, a relay name, an unknown
\* protocol, a relay name with a "/", a route without project, a route with a
\* placeholder outside /project/, a route through a project after another segment
ToArgs ==
    {default_to_addr,
     RelayRoute("p2", <<"n1">>),
     <<"alice">>,
     <<"/", "alice", "/", "service">>,
     <<"alice", "/", "forwarder">>,
     <<"/", "service", "/", "outlet">>,
     <<"/", "service", "/", "forward_to_", "$RELAY_NAME">>,
     <<"/", "service", "/", "relay", "/", "project", "/", "p2">>}

DefaultProjects == {{}, {"p1"}}

\* Durations in microseconds; duration_parser yields whole milliseconds: none, "1ms",
\* and the default "20s"
RetryWaits == {0, 1000, 20000000}

\* --timeout: not given, or "1s"
Timeouts == {{}, {1000000}}

\* Duration::as_millis
as_millis(d) == d \div 1000

\* Reply::Successful, Reply::Failed with Some(BadRequest), with Some of another status,
\* with None, and an Err from the request itself
ReplyKinds == {"Successful", "BadRequest", "NotFound", "NoStatus", "RequestError"}

\* the status of a Reply::Failed, "None" without one
StatusOf(reply) ==
    CASE reply = "BadRequest" -> "BadRequest"
      [] reply = "NotFound" -> "NotFound"
      [] OTHER -> "None"

Cmd(arg, default_project, to, retry_wait, timeout, portFree, authorized) ==
    [arg |-> arg, default_project |-> default_project, to |-> to, retry_wait |-> retry_wait,
     timeout |-> timeout, portFree |-> portFree, authorized |-> authorized]

\* port_is_free_guard
port_is_free_guard(portFree) == portFree

\* `cmd.to().matches(0, &[Project::CODE.into()]) && cmd.authorized.is_some()`
AuthorizedWithProject(to, authorized) == matches(from_str(to).segs, 0, "project") /\ authorized

\* a loop that retries when the request itself failed
PropagatesNever(reply) == FALSE

\* `.await?` on the request
Propagates(reply) == reply = "RequestError"

\* a loop that sets the flag whatever the reply
FinishedOnFailure(reply) == TRUE

\* `*is_finished.lock().await = true` is in the Successful arm alone
Finishes(reply) == reply = "Successful"

\* a loop that treats no status as fatal
IsBadRequestNever(status) == FALSE

\* `if let Some(status) = s { if status == Status::BadRequest`
IsBadRequest(status) == status # "None" /\ status = "BadRequest"

\* a loop that retries whatever retry_wait is
GivesUpNever(retry_wait) == FALSE

\* a loop that never retries
GivesUpAlways(retry_wait) == TRUE

\* `if cmd.retry_wait.as_millis() == 0`
GivesUp(retry_wait) == as_millis(retry_wait) = 0

\* parse_args, then in create_inlet port_is_free_guard, the project/authorized test,
\* and the first request of the loop
InletStart ==
    /\ ipc = "idle"
    /\ \E arg \in ToArgs, project \in DefaultProjects, retry_wait \in RetryWaits,
          timeout \in Timeouts, portFree \in BOOLEAN, authorized \in BOOLEAN :
           LET parsed == parse_arg_to(arg, project)
               c == Cmd(arg, project, parsed.to, retry_wait, timeout, portFree, authorized)
           IN  /\ cmd' = c
               /\ IF ~parsed.ok
                  THEN ipc' = "failed" /\ ierr' = parsed.err /\ UNCHANGED requests
                  ELSE IF ~port_is_free_guard(portFree)
                  THEN ipc' = "failed" /\ ierr' = "PortInUse" /\ UNCHANGED requests
                  ELSE IF AuthorizedWithProject(c.to, authorized)
                  THEN ipc' = "failed" /\ ierr' = "AuthorizedWithProject" /\ UNCHANGED requests
                  ELSE ipc' = "request" /\ requests' = requests + 1 /\ UNCHANGED ierr
    /\ UNCHANGED <<sleeps, sleepFor, replies, is_finished, slept, inlet, progress>>
    /\ CoreIdle
    /\ CredentialsIdle

\* the await of create_inlet and the match on its result
InletReply ==
    /\ ipc = "request"
    /\ \E reply \in ReplyKinds :
           /\ replies' = Append(replies, reply)
           /\ is_finished' = IF Finishes(reply) THEN TRUE ELSE is_finished
           /\ IF Propagates(reply)
              THEN /\ ipc' = "failed"
                   /\ ierr' = "Request"
                   /\ UNCHANGED <<sleeps, sleepFor, inlet>>
              ELSE IF reply = "Successful"
              THEN /\ ipc' = "established"
                   /\ inlet' = "InletStatus"
                   /\ UNCHANGED <<sleeps, sleepFor, ierr>>
              ELSE IF IsBadRequest(StatusOf(reply))
              THEN /\ ipc' = "failed"
                   /\ ierr' = "Invalid"
                   /\ UNCHANGED <<sleeps, sleepFor, inlet>>
              ELSE IF GivesUp(cmd.retry_wait)
              THEN /\ ipc' = "failed"
                   /\ ierr' = "Failed"
                   /\ UNCHANGED <<sleeps, sleepFor, inlet>>
              ELSE /\ requests < MaxAttempts
                   /\ ipc' = "sleep"
                   /\ sleeps' = sleeps + 1
                   /\ sleepFor' = cmd.retry_wait
                   /\ UNCHANGED <<ierr, inlet>>
    /\ UNCHANGED <<cmd, requests, slept, progress>>
    /\ CoreIdle
    /\ CredentialsIdle

\* the sleep is over: the loop sends the next request
InletWake ==
    /\ ipc = "sleep"
    /\ ipc' = "request"
    /\ requests' = requests + 1
    /\ slept' = slept + sleepFor
    /\ UNCHANGED <<cmd, sleeps, sleepFor, replies, is_finished, ierr, inlet, progress>>
    /\ CoreIdle
    /\ CredentialsIdle

\* progress_output_with_progress_bar reads the flag and ends once it is set
ProgressOutput ==
    /\ progress = "running"
    /\ is_finished
    /\ progress' = "finished"
    /\ UNCHANGED <<ipc, cmd, requests, sleeps, sleepFor, replies, is_finished, ierr, slept, inlet>>
    /\ CoreIdle
    /\ CredentialsIdle

InletInit ==
    /\ ipc = "idle"
    /\ cmd = Cmd(default_to_addr, {}, <<>>, 0, {}, TRUE, FALSE)
    /\ requests = 0
    /\ sleeps = 0
    /\ sleepFor = 0
    /\ replies = <<>>
    /\ is_finished = FALSE
    /\ ierr = "none"
    /\ slept = 0
    /\ inlet = "none"
    /\ progress = "running"

InletNext == InletStart \/ InletReply \/ InletWake \/ ProgressOutput

Retryable == {"NotFound", "NoStatus"}

\* C18: a BadRequest reply is the last one whatever retry_wait is and whichever
\* attempt it answers: the loop has failed with it, no request and no sleep follows
\* it, and the completion flag is not set
C18_BadRequestEndsLoop ==
    \A i \in DOMAIN replies :
        replies[i] = "BadRequest" =>
            /\ i = Len(replies)
            /\ ipc = "failed"
            /\ ierr = "Invalid"
            /\ requests = i
            /\ sleeps = i - 1
            /\ ~is_finished

C18_Witness ==
    /\ cmd.retry_wait > 0
    /\ Len(replies) = 2
    /\ replies[2] = "BadRequest"
    /\ ipc = "failed"

\* C19: with retry_wait = 0 one request is sent and the loop never sleeps; a failed
\* reply that is not BadRequest, with or without a status, fails the operation
C19_ZeroRetryWaitOneAttempt ==
    (cmd.retry_wait = 0 /\ ipc # "idle") =>
        /\ requests = IF ierr \in {"PortInUse", "AuthorizedWithProject"} \/ cmd.to = <<>> THEN 0 ELSE 1
        /\ sleeps = 0
        /\ ipc # "sleep"
        /\ Len(replies) <= 1
        /\ (replies # <<>> /\ replies[1] \in Retryable) => (ipc = "failed" /\ ierr = "Failed")

C19_Witness ==
    /\ cmd.retry_wait = 0
    /\ replies = <<"NoStatus">>
    /\ ipc = "failed"
    /\ requests = 1

\* C20: with retry_wait > 0 every failed reply that is not BadRequest, with or without
\* a status, is followed by a sleep of retry_wait and then by another request; so the
\* loop goes on until a reply is a success, a BadRequest or a request error, and with
\* neither of the last two the inlet is established
C20_RetryUntilSuccess ==
    /\ [](cmd.retry_wait > 0 =>
              \A i \in DOMAIN replies :
                  replies[i] \in Retryable =>
                      /\ sleeps >= i
                      /\ sleepFor = cmd.retry_wait
                      /\ \/ ipc = "sleep" /\ i = Len(replies) /\ requests = i
                         \/ requests >= i + 1)
    /\ [][ipc = "sleep" => (ipc' = "request" /\ requests' = requests + 1)]_vars
    /\ (ipc = "request" /\ cmd.retry_wait > 0) ~> (ipc = "established" \/ ierr \in {"Invalid", "Request"})

C20_Witness ==
    /\ cmd.retry_wait > 0
    /\ ipc = "established"
    /\ replies = <<"NoStatus", "NotFound", "Successful">>
    /\ sleeps = 2
    /\ is_finished

\* C21: with a timeout given the loop does not go on past it: once the time slept
\* alone exceeds the timeout the operation has failed with a timeout error
C21_TimeoutBoundsLoop ==
    \A t \in cmd.timeout : slept > t => (ipc = "failed" /\ ierr = "Timeout")

Traverses(to, code) == \E i \in DOMAIN from_str(to).segs : from_str(to).segs[i].proto = code

PreconditionsFail == ~cmd.portFree \/ (Traverses(cmd.to, "project") /\ cmd.authorized)

\* C22: a request is sent only with the bind address free and not with both a route
\* through a project segment and an authorized identifier; otherwise the operation
\* has failed with no request sent
C22_PreconditionsBeforeRequest ==
    (ipc # "idle" /\ cmd.to # <<>> /\ PreconditionsFail) => (ipc = "failed" /\ requests = 0)

\* C23: the completion flag is false at first, is set by the success reply alone, is
\* never reset and is false on every failure path; the inlet status is handed over
\* once, in the step that establishes the inlet, and the progress output only reads
C23_CompletionFlag ==
    /\ [](/\ ipc = "idle" => ~is_finished
          /\ is_finished <=> (ipc = "established" /\ replies[Len(replies)] = "Successful")
          /\ ipc = "failed" => (~is_finished /\ inlet = "none")
          /\ inlet # "none" <=> ipc = "established"
          /\ progress = "finished" => is_finished)
    /\ [][is_finished => is_finished']_vars
    /\ [][inlet' # inlet => (inlet = "none" /\ ipc = "request" /\ ipc' = "established")]_vars

C23_Witness ==
    /\ ipc = "established"
    /\ is_finished
    /\ progress = "finished"
    /\ inlet = "InletStatus"
    /\ replies = <<"NotFound", "Successful">>

NoPlaceholder(str) == ~contains(str, "$PROJECT_NAME") /\ ~contains(str, "$RELAY_NAME")

\* C24: with a default project p the default template becomes the route through p and
\* forward_to_default, a relay name without "/" the route through p and forward_to_
\* that name, and a project route without placeholders is returned as it is
C24_ParseArgTo ==
    \A p \in cmd.default_project :
        ipc # "idle" =>
            /\ cmd.arg = default_to_addr => cmd.to = RelayRoute(p, <<"default">>)
            /\ (~contains(cmd.arg, "/") /\ NoPlaceholder(cmd.arg)) => cmd.to = RelayRoute(p, cmd.arg)
            /\ (starts_with(cmd.arg, ProjectPrefix) /\ NoPlaceholder(cmd.arg) /\ from_str(cmd.arg).ok) =>
                   cmd.to = cmd.arg

C24_Witness ==
    /\ ipc = "request"
    /\ cmd.default_project = {"p1"}
    /\ cmd.arg = default_to_addr
    /\ cmd.to = RelayRoute("p1", <<"default">>)

Rejected == ipc = "failed" /\ requests = 0 /\ replies = <<>> /\ cmd.to = <<>>

\* C25: an input with a "/" that is no valid address, and an input with a placeholder
\* when there is no default project, are rejected before any request is sent
C25_RejectedBeforeAttempts ==
    ipc # "idle" =>
        /\ (contains(cmd.arg, "/") /\ ~from_str(cmd.arg).ok) => Rejected
        /\ (~NoPlaceholder(cmd.arg) /\ cmd.default_project = {}) => Rejected

\* C28: a request that fails is the last one whatever retry_wait is: the loop has
\* failed with its error, no sleep and no request follows, the flag is not set
C28_RequestErrorEndsLoop ==
    \A i \in DOMAIN replies :
        replies[i] = "RequestError" =>
            /\ i = Len(replies)
            /\ ipc = "failed"
            /\ ierr = "Request"
            /\ requests = i
            /\ sleeps = i - 1
            /\ ~is_finished

C28_Witness ==
    /\ cmd.retry_wait > 0
    /\ replies = <<"NoStatus", "RequestError">>
    /\ ipc = "failed"
    /\ sleeps = 1

(***************************************************************************)
(* UsersSqlxDatabase: the users repository                                 *)
(***************************************************************************)
Emails == {"me@ockam.io", "you@ockam.io", "us@ockam.io"}
Nicknames == {"me", "you"}

UserInfo(email, nickname) == [email |-> email, nickname |-> nickname]
UserInfos == {UserInfo(e, n) : e \in Emails, n \in Nicknames}

UserRow(email, nickname, is_default) == [email |-> email, nickname |-> nickname, is_default |-> is_default]

\* UserRow::user
user(row) == UserInfo(row.email, row.nickname)

NoUser == [found |-> FALSE, user |-> UserInfo("", "")]
SomeUser(u) == [found |-> TRUE, user |-> u]

\* the rows a WHERE clause keeps, in rowid order
WhereEmail(rows, email) == SelectSeq(rows, LAMBDA r : r.email = email)
WhereDefault(rows) == SelectSeq(rows, LAMBDA r : r.is_default)

\* fetch_optional: the first row of the result, if any
fetch_optional(rows) == IF rows = <<>> THEN NoUser ELSE SomeUser(user(rows[1]))

\* get_user: SELECT * FROM user WHERE email=$1
get_user(rows, email) == fetch_optional(WhereEmail(rows, email))

\* get_default_user: SELECT email FROM user WHERE is_default=true, then get_user
get_default_user(rows) ==
    LET row == fetch_optional(WhereDefault(rows))
    IN  IF row.found THEN get_user(rows, row.user.email) ELSE NoUser

\* get_users: SELECT * FROM user
get_users(rows) == [i \in DOMAIN rows |-> user(rows[i])]

\* store_user: is_already_default, then INSERT OR REPLACE; email is the primary key, the
\* row that had it is removed and the new row gets a new rowid
store_user(rows, u) ==
    LET d == get_default_user(rows)
        is_already_default == d.found /\ d.user.email = u.email
    IN  Append(SelectSeq(rows, LAMBDA r : r.email # u.email),
               UserRow(u.email, u.nickname, is_already_default))

\* set_default_user: UPDATE user SET is_default = true WHERE email = ?
set_default_user(rows, email) ==
    [i \in DOMAIN rows |->
        IF rows[i].email = email THEN [rows[i] EXCEPT !.is_default = TRUE] ELSE rows[i]]

\* a delete that takes the default user along
delete_user_or_default(rows, email) == SelectSeq(rows, LAMBDA r : r.email # email /\ ~r.is_default)

\* delete_user: DELETE FROM user WHERE email=?
delete_user(rows, email) == SelectSeq(rows, LAMBDA r : r.email # email)

URet(op, email, before) == [op |-> op, email |-> email, before |-> before]

StoreUser ==
    /\ \E u \in UserInfos :
           /\ users' = store_user(users, u)
           /\ uret' = URet("store_user", u.email, get_default_user(users))
    /\ ServicesIdle
    /\ EnrollIdle

SetDefaultUser ==
    /\ \E email \in Emails :
           /\ users' = set_default_user(users, email)
           /\ uret' = URet("set_default_user", email, get_default_user(users))
    /\ ServicesIdle
    /\ EnrollIdle

DeleteUser ==
    /\ \E email \in Emails :
           /\ users' = delete_user(users, email)
           /\ uret' = URet("delete_user", email, get_default_user(users))
    /\ ServicesIdle
    /\ EnrollIdle

UsersInit ==
    /\ users = <<>>
    /\ uret = URet("none", "", NoUser)

UsersNext == StoreUser \/ SetDefaultUser \/ DeleteUser

IsDefaultUser(rows, email) ==
    get_default_user(rows).found /\ get_default_user(rows).user.email = email

\* C26: a delete_user(e) removes the user e and no other: get_user answers for every
\* other email as before, get_users lists the users it listed without e, and when e
\* was not the default user get_default_user answers as before
C26_DeleteUserFrame ==
    [][(uret'.op = "delete_user" /\ (uret' # uret \/ users' # users)) =>
           LET e == uret'.email
           IN  /\ ~get_user(users', e).found
               /\ \A o \in Emails \ {e} : get_user(users', o) = get_user(users, o)
               /\ get_users(users') = SelectSeq(get_users(users), LAMBDA u : u.email # e)
               /\ ~IsDefaultUser(users, e) => get_default_user(users') = get_default_user(users)
               /\ get_user(users, e).found => Len(users') = Len(users) - 1]_vars

C26_Witness ==
    /\ uret.op = "delete_user"
    /\ uret.email = "you@ockam.io"
    /\ Len(users) = 1
    /\ get_users(users) = <<UserInfo("me@ockam.io", "me")>>
    /\ get_default_user(users) = SomeUser(UserInfo("me@ockam.io", "me"))

\* C31: after a store_user, get_default_user returns a user exactly if it did before,
\* and one of the same email; when that is the user just stored, it is returned as stored
C31_StoreKeepsDefault ==
    uret.op = "store_user" =>
        /\ get_default_user(users).found = uret.before.found
        /\ get_default_user(users).user.email = uret.before.user.email
        /\ (uret.before.found /\ uret.before.user.email = uret.email) =>
               get_default_user(users) = SomeUser(user(users[Len(users)]))

\* C30: at most one stored user is marked as default
C30_OneDefaultUser ==
    Cardinality({i \in DOMAIN users : users[i].is_default}) <= 1

(***************************************************************************)
(* AppState: enroll_user and enroll_with_token                             *)
(***************************************************************************)
\* the awaited steps of enroll_with_token after the is_enrolled test, in program order
Steps ==
    <<"get_token_with_pkce", "get_user_info", "store_user", "set_default_user",
      "enroll_with_oidc_token", "retrieve_space", "retrieve_project", "get_node",
      "set_identifier_as_enrolled">>

\* what get_user_info can return
EnrollUser(email, nickname, email_verified) ==
    [email |-> email, nickname |-> nickname, email_verified |-> email_verified]
NoEnrollUser == EnrollUser("", "", FALSE)
EnrollUsers == {EnrollUser(e, "me", v) : e \in {"me@ockam.io", "you@ockam.io"}, v \in BOOLEAN}

\* is_enrolled(): Ok with the identifier's mark, or an error
is_enrolled(mark) == {IF mark THEN "true" ELSE "false", "Err"}

\* `.unwrap_or_default()`
unwrap_or_default(r) == r = "true"

\* an enrollment that goes on with an unverified email
PendingValidationNever(user_info) == FALSE

\* `if !user_info.email_verified { return Ok(EnrollmentOutcome::PendingValidation) }`
PendingValidation(user_info) == ~user_info.email_verified

\* a step of enroll_with_token returned an error: `?` returns it, and enroll_user
\* sets the status and returns the error
Failed ==
    /\ eout' = "Err"
    /\ ostatus' = "Disconnected"
    /\ eret' = "Err"
    /\ epc' = "done"

\* a step succeeded and the next await is reached
Succeeded(next) ==
    /\ esteps' = Append(esteps, epc)
    /\ epc' = next

EnrollFrame ==
    /\ UNCHANGED <<policy, inflight, ret, transports, registered, lock, queried, rpc, input, snapshot, idx, resolved, asked, result>>
    /\ CredentialsIdle
    /\ InletIdle

\* enroll_user calls enroll_with_token: the is_enrolled test, and the status update
EnrollCall ==
    /\ epc = "idle"
    /\ \E r \in is_enrolled(enrolled) :
           /\ eis' = r
           /\ IF unwrap_or_default(r)
              THEN /\ eout' = "AlreadyEnrolled"
                   /\ eret' = "Ok"
                   /\ epc' = "done"
                   /\ UNCHANGED ostatus
              ELSE /\ ostatus' = "WaitingForToken"
                   /\ epc' = Steps[1]
                   /\ UNCHANGED <<eout, eret>>
    /\ estart' = enrolled
    /\ UNCHANGED <<enrolled, euser, esteps, users, uret>>
    /\ EnrollFrame

GetToken ==
    /\ epc = "get_token_with_pkce"
    /\ \/ Succeeded("get_user_info") /\ UNCHANGED <<eout, eret, ostatus>>
       \/ Failed /\ UNCHANGED esteps
    /\ UNCHANGED <<enrolled, euser, eis, estart, users, uret>>
    /\ EnrollFrame

\* get_user_info, and the email_verified test; enroll_user answers PendingValidation
\* with the status Disconnected and Ok
GetUserInfo ==
    /\ epc = "get_user_info"
    /\ \/ \E u \in EnrollUsers :
              /\ euser' = u
              /\ esteps' = Append(esteps, epc)
              /\ IF PendingValidation(u)
                 THEN /\ eout' = "PendingValidation"
                      /\ ostatus' = "Disconnected"
                      /\ eret' = "Ok"
                      /\ epc' = "done"
                 ELSE /\ epc' = "store_user"
                      /\ UNCHANGED <<eout, eret, ostatus>>
       \/ Failed /\ UNCHANGED <<esteps, euser>>
    /\ UNCHANGED <<enrolled, eis, estart, users, uret>>
    /\ EnrollFrame

EnrollStoreUser ==
    /\ epc = "store_user"
    /\ \/ /\ Succeeded("set_default_user")
          /\ users' = store_user(users, UserInfo(euser.email, euser.nickname))
          /\ uret' = URet("store_user", euser.email, get_default_user(users))
          /\ UNCHANGED <<eout, eret, ostatus>>
       \/ Failed /\ UNCHANGED <<esteps, users, uret>>
    /\ UNCHANGED <<enrolled, euser, eis, estart>>
    /\ EnrollFrame

EnrollSetDefaultUser ==
    /\ epc = "set_default_user"
    /\ \/ /\ Succeeded("enroll_with_oidc_token")
          /\ users' = set_default_user(users, euser.email)
          /\ uret' = URet("set_default_user", euser.email, get_default_user(users))
          /\ UNCHANGED <<eout, eret, ostatus>>
       \/ Failed /\ UNCHANGED <<esteps, users, uret>>
    /\ UNCHANGED <<enrolled, euser, eis, estart>>
    /\ EnrollFrame

\* controller().await and enroll_with_oidc_token, then the status update
EnrollWithOidcToken ==
    /\ epc = "enroll_with_oidc_token"
    /\ \/ Succeeded("retrieve_space") /\ ostatus' = "RetrievingSpace" /\ UNCHANGED <<eout, eret>>
       \/ Failed /\ UNCHANGED esteps
    /\ UNCHANGED <<enrolled, euser, eis, estart, users, uret>>
    /\ EnrollFrame

RetrieveSpace ==
    /\ epc = "retrieve_space"
    /\ \/ Succeeded("retrieve_project") /\ ostatus' = "RetrievingProject" /\ UNCHANGED <<eout, eret>>
       \/ Failed /\ UNCHANGED esteps
    /\ UNCHANGED <<enrolled, euser, eis, estart, users, uret>>
    /\ EnrollFrame

RetrieveProject ==
    /\ epc = "retrieve_project"
    /\ \/ Succeeded("get_node") /\ UNCHANGED <<eout, eret, ostatus>>
       \/ Failed /\ UNCHANGED esteps
    /\ UNCHANGED <<enrolled, euser, eis, estart, users, uret>>
    /\ EnrollFrame

GetNode ==
    /\ epc = "get_node"
    /\ \/ Succeeded("set_identifier_as_enrolled") /\ UNCHANGED <<eout, eret, ostatus>>
       \/ Failed /\ UNCHANGED esteps
    /\ UNCHANGED <<enrolled, euser, eis, estart, users, uret>>
    /\ EnrollFrame

\* set_identifier_as_enrolled, and Ok(EnrollmentOutcome::Successful)
SetIdentifierAsEnrolled ==
    /\ epc = "set_identifier_as_enrolled"
    /\ \/ /\ Succeeded("reset_node_manager")
          /\ enrolled' = TRUE
          /\ eout' = "Successful"
          /\ UNCHANGED <<eret, ostatus>>
       \/ Failed /\ UNCHANGED <<esteps, enrolled>>
    /\ UNCHANGED <<euser, eis, estart, users, uret>>
    /\ EnrollFrame

\* enroll_user after a successful enrollment: reset_node_manager().await?, the refreshes
ResetNodeManager ==
    /\ epc = "reset_node_manager"
    /\ \E ok \in BOOLEAN : eret' = IF ok THEN "Ok" ELSE "Err"
    /\ epc' = "done"
    /\ UNCHANGED <<eout, enrolled, ostatus, euser, esteps, eis, estart, users, uret>>
    /\ EnrollFrame

\* enroll_user is called again
EnrollAgain ==
    /\ epc = "done"
    /\ epc' = "idle"
    /\ eout' = "none"
    /\ eret' = "none"
    /\ euser' = NoEnrollUser
    /\ esteps' = <<>>
    /\ eis' = "none"
    /\ UNCHANGED <<enrolled, ostatus, estart, users, uret>>
    /\ EnrollFrame

EnrollInit ==
    /\ epc = "idle"
    /\ eout = "none"
    /\ eret = "none"
    /\ enrolled = FALSE
    /\ ostatus = "Disconnected"
    /\ euser = NoEnrollUser
    /\ esteps = <<>>
    /\ eis = "none"
    /\ estart = FALSE

EnrollNext ==
    \/ EnrollCall
    \/ GetToken
    \/ GetUserInfo
    \/ EnrollStoreUser
    \/ EnrollSetDefaultUser
    \/ EnrollWithOidcToken
    \/ RetrieveSpace
    \/ RetrieveProject
    \/ GetNode
    \/ SetIdentifierAsEnrolled
    \/ ResetNodeManager
    \/ EnrollAgain

\* the steps in esteps are a prefix of the program order
InOrder(done) == done = SubSeq(Steps, 1, Len(done))

\* the user of this enrollment is stored and is a default user
StoredAsDefault ==
    \E i \in DOMAIN users : users[i].email = euser.email /\ users[i].is_default

\* C32 as stated: an identifier that is already marked as enrolled runs none of the
\* steps, and after a failing step the identifier is not marked as enrolled
C32_EnrolledRunsNothing ==
    /\ (estart /\ epc # "idle") => esteps = <<>>
    /\ eout = "Err" => (~enrolled /\ ostatus = "Disconnected" /\ eret = "Err")

\* C32, amended: an enrollment marks the identifier only as its last step, after
\* the steps before it succeeded in program order with a verified email and the
\* user stored and set as default; when is_enrolled() answers true no step runs;
\* with an unverified email the users are left as they were; after a failing step
\* the mark is as it was when the enrollment was called, the status is
\* Disconnected and the error is returned
C32_EnrollOrder ==
    /\ [](InOrder(esteps))
    /\ [][enrolled' # enrolled =>
              /\ enrolled'
              /\ epc = "set_identifier_as_enrolled"
              /\ esteps' = Steps
              /\ euser.email_verified
              /\ StoredAsDefault]_vars
    /\ [](eis = "true" => (esteps = <<>> /\ eout = "AlreadyEnrolled" /\ eret = "Ok"))
    /\ []((euser # NoEnrollUser /\ ~euser.email_verified) =>
              (esteps = <<"get_token_with_pkce", "get_user_info">> /\ eout = "PendingValidation"
               /\ ostatus = "Disconnected" /\ eret = "Ok" /\ enrolled = estart))
    /\ [][users' # users => (euser.email_verified /\ epc \in {"store_user", "set_default_user"})]_vars
    /\ [](eout = "Err" =>
              (enrolled = estart /\ ostatus = "Disconnected" /\ eret = "Err" /\ epc = "done"))

\* an enrollment went through every step and marked the identifier
C32_Witness ==
    /\ eout = "Successful"
    /\ esteps = Steps
    /\ enrolled
    /\ ~estart

Init == PolicyInit /\ TransportsInit /\ CredentialsInit /\ InletInit /\ UsersInit /\ EnrollInit

Next == PolicyNext \/ ConcurrentNext \/ RegistryNext \/ TransportsNext \/ CredentialsNext \/ InletNext \/ UsersNext \/ EnrollNext

Spec == Init /\ [][Next]_vars

\* The policy store, its calls one after another
SpecPolicy == Init /\ [][PolicyNext]_vars

\* The policy store under concurrent set_policy calls
SpecConcurrent == Init /\ [][ConcurrentNext]_vars

\* The transport registry and the resolver alone
SpecTransports == Init /\ [][TransportsNext]_vars

\* The node's credential handlers
SpecCredentials == Init /\ [][CredentialsNext]_vars

\* The inlet's attempt loop
SpecInlet == Init /\ [][InletNext]_vars

\* The attempt loop when every reply arrives and every sleep ends
SpecInletFair == SpecInlet /\ WF_vars(InletReply) /\ WF_vars(InletWake)

\* The users repository
SpecUsers == Init /\ [][UsersNext]_vars

\* Enrollments, one after the other
SpecEnroll == Init /\ [][EnrollNext]_vars

\* The transport registry alone
SpecRegistry == Init /\ [][RegistryNext]_vars

====
